---------------------------- MODULE Spec2Model ----------------------------
(***************************************************************************)
(* Liquid Audio Agent: the request-normalisation layer                     *)
(* (src/services/geminiService.ts) and the two orchestrators that drive    *)
(* it, handleSendMessage of src/App.tsx ("App") and handleSendMessage /    *)
(* processResponse of src/unnamed/part_004 ("P4"), the latter also with    *)
(* the speech input of src/components/ChatWindow.tsx.                      *)
(*                                                                         *)
(* JavaScript values are modelled as follows.  A string is a TLA+ string.  *)
(* A JSON value is a record tagged by t ("null", "str", "num", "obj",      *)
(* "undef"); an optional object field that is absent is the value of the   *)
(* matching No... definition.  Arrays are sequences.                       *)
(***************************************************************************)
EXTENDS Integers, Sequences, FiniteSets, TLC

(***************************************************************************)
(* Bounds of the model.                                                    *)
(***************************************************************************)
\* a turn starts only on a transcript shorter than this
MaxMessages == 4
\* webhook entries the model lets the transcript hold at a time
MaxWebhooks == 1
\* tool branches the model lets one turn take
MaxToolRounds == 2
\* longest history handed to the mapper in MapSpec
MaxHistory == 4
\* last reading of the millisecond clock in MapSpec
MaxClock == 1
\* most tool_calls entries of a response body in TransformSpec
MaxToolCalls == 2

(***************************************************************************)
(* JSON values, JSON.parse and JSON.stringify                              *)
(***************************************************************************)
Undefined == [t |-> "undef"]
JsonNull == [t |-> "null"]
JStr(s) == [t |-> "str", v |-> s]
JNum(s) == [t |-> "num", v |-> s]
\* an object with the single optional key workflowName
JObj(w) == [t |-> "obj", workflowName |-> w]

\* JavaScript truthiness of a JSON value
Truthy(j) ==
    CASE j.t = "undef" -> FALSE
      [] j.t = "null" -> FALSE
      [] j.t = "str" -> j.v # ""
      [] j.t = "num" -> j.v # "0"
      [] OTHER -> TRUE

\* the argument strings a provider may put into tool_calls[0].function.arguments
ArgStrings ==
    { "{\"workflowName\":\"Nightly Backup\"}",
      "{\"workflowName\":\"\"}",
      "{\"workflowName\":42}",
      "{}",
      "null",
      "{workflowName:",
      "" }

\* JSON.parse: ok = FALSE stands for the SyntaxError it throws
JSONparse(s) ==
    CASE s = "{\"workflowName\":\"Nightly Backup\"}" ->
            [ok |-> TRUE, value |-> JObj(JStr("Nightly Backup"))]
      [] s = "{\"workflowName\":\"\"}" -> [ok |-> TRUE, value |-> JObj(JStr(""))]
      [] s = "{\"workflowName\":42}" -> [ok |-> TRUE, value |-> JObj(JNum("42"))]
      [] s = "{}" -> [ok |-> TRUE, value |-> JObj(Undefined)]
      [] s = "null" -> [ok |-> TRUE, value |-> JsonNull]
      [] OTHER -> [ok |-> FALSE, value |-> Undefined]

\* JSON.stringify of a parsed argument object
JSONstringify(j) ==
    CASE j.t = "null" -> "null"
      [] j.t = "obj" /\ j.workflowName.t = "undef" -> "{}"
      [] j.t = "obj" /\ j.workflowName.t = "str" /\ j.workflowName.v = "" ->
            "{\"workflowName\":\"\"}"
      [] j.t = "obj" /\ j.workflowName.t = "str" ->
            "{\"workflowName\":\"Nightly Backup\"}"
      [] j.t = "obj" /\ j.workflowName.t = "num" -> "{\"workflowName\":42}"
      [] OTHER -> "undefined"

(***************************************************************************)
(* Message (src/types.ts) and OpenAIMessage (geminiService.ts)             *)
(***************************************************************************)
\* Message.functionCall when the field is absent
NoCall == [k |-> "none"]
FunctionCall(n, a) == [k |-> "call", name |-> n, args |-> a]

Message(r, c, fc, err) ==
    [role |-> r, content |-> c, functionCall |-> fc, isError |-> err]

\* OpenAIMessage.tool_call_id / name when the field is absent
NoId == [k |-> "none"]
CallId(n, t) == [k |-> "id", name |-> n, now |-> t]

\* OpenAIMessage; tool_calls = << >> stands for the absent field (the mapper
\* only ever writes a one-element array), content "null" for null
OpenAIMessage(r, c, tcs, id, n) ==
    [role |-> r, content |-> c, tool_calls |-> tcs, tool_call_id |-> id, name |-> n]

SystemInstruction == "You are an AI assistant named Liquid Audio Agent."

(***************************************************************************)
(* mapMessagesToOpenAI (geminiService.ts 33-71).  clk[i] is what           *)
(* Date.now() returns while the i-th message of the history is mapped;     *)
(* the loop is synchronous, so the readings never decrease.                *)
(***************************************************************************)
\* mutant of lastAssistantMsg: find without reverse(), the first such entry
firstAssistantMsg(openAiMessages) ==
    LET hits == { j \in 1..Len(openAiMessages) :
                    /\ openAiMessages[j].role = "assistant"
                    /\ openAiMessages[j].tool_calls # << >> }
    IN  IF hits = {} THEN 0 ELSE CHOOSE j \in hits : \A h \in hits : j <= h

\* openAiMessages.slice().reverse().find(m => m.role === 'assistant' && !!m.tool_calls):
\* the index of the last such entry, 0 when find returns undefined
lastAssistantMsg(openAiMessages) ==
    LET hits == { j \in 1..Len(openAiMessages) :
                    /\ openAiMessages[j].role = "assistant"
                    /\ openAiMessages[j].tool_calls # << >> }
    IN  IF hits = {} THEN 0 ELSE CHOOSE j \in hits : \A h \in hits : h <= j

\* the correlation id `call_${msg.functionCall.name}_${Date.now()}`
NewCallId(name, now) == CallId(name, now)

\* the entry pushed for an assistant message that carries a functionCall
assistantCallEntry(msg, now) ==
    OpenAIMessage("assistant", "null",
                  << [id |-> NewCallId(msg.functionCall.name, now),
                      type |-> "function",
                      function |-> [name |-> msg.functionCall.name,
                                    arguments |-> JSONstringify(msg.functionCall.args)]] >>,
                  NoId, "")

\* mutant of mapOne: a tool message without a prior assistant tool call is
\* sent on without a correlation id instead of being dropped
mapOneKeepingOrphans(openAiMessages, msg, now) ==
    CASE msg.role = "user" ->
            << OpenAIMessage("user", msg.content, << >>, NoId, "") >>
      [] msg.role = "assistant" ->
            IF msg.functionCall # NoCall
            THEN << assistantCallEntry(msg, now) >>
            ELSE << OpenAIMessage("assistant", msg.content, << >>, NoId, "") >>
      [] msg.role = "tool" ->
            LET j == lastAssistantMsg(openAiMessages)
            IN  IF j # 0
                THEN << OpenAIMessage("tool", msg.content, << >>,
                                      openAiMessages[j].tool_calls[1].id,
                                      openAiMessages[j].tool_calls[1].function.name) >>
                ELSE << OpenAIMessage("tool", msg.content, << >>, NoId, "") >>
      [] OTHER -> << >>

\* mutant of mapOne: a tool message is dropped when a tool entry was already
\* emitted after the last assistant tool-call entry
mapOneAnsweringOnce(openAiMessages, msg, now) ==
    CASE msg.role = "user" ->
            << OpenAIMessage("user", msg.content, << >>, NoId, "") >>
      [] msg.role = "assistant" ->
            IF msg.functionCall # NoCall
            THEN << assistantCallEntry(msg, now) >>
            ELSE << OpenAIMessage("assistant", msg.content, << >>, NoId, "") >>
      [] msg.role = "tool" ->
            LET j == lastAssistantMsg(openAiMessages)
            IN  IF j # 0 /\ \A h \in (j + 1)..Len(openAiMessages) :
                                openAiMessages[h].role # "tool"
                THEN << OpenAIMessage("tool", msg.content, << >>,
                                      openAiMessages[j].tool_calls[1].id,
                                      openAiMessages[j].tool_calls[1].function.name) >>
                ELSE << >>
      [] OTHER -> << >>

\* the entries one message adds to openAiMessages (none, or one)
mapOne(openAiMessages, msg, now) ==
    CASE msg.role = "user" ->
            << OpenAIMessage("user", msg.content, << >>, NoId, "") >>
      [] msg.role = "assistant" ->
            IF msg.functionCall # NoCall
            THEN << assistantCallEntry(msg, now) >>
            ELSE << OpenAIMessage("assistant", msg.content, << >>, NoId, "") >>
      [] msg.role = "tool" ->
            LET j == lastAssistantMsg(openAiMessages)
            IN  IF j # 0
                THEN << OpenAIMessage("tool", msg.content, << >>,
                                      openAiMessages[j].tool_calls[1].id,
                                      openAiMessages[j].tool_calls[1].function.name) >>
                ELSE << >>
      [] OTHER -> << >>

\* messages.filter(msg => msg.role !== 'system'), as the positions it keeps
filteredMessages(messages) ==
    SelectSeq([i \in 1..Len(messages) |-> i], LAMBDA i : messages[i].role # "system")

\* the for loop of lines 38-69 from the i-th kept message on
RECURSIVE mapLoop(_, _, _, _, _)
mapLoop(messages, kept, clk, i, openAiMessages) ==
    IF i > Len(kept)
    THEN openAiMessages
    ELSE mapLoop(messages, kept, clk, i + 1,
                 openAiMessages \o mapOne(openAiMessages, messages[kept[i]], clk[kept[i]]))

\* mutant of mapMessagesToOpenAI: the system entry is put last, not first
mapMessagesSystemLast(messages, systemInstruction, clk) ==
    Append(mapLoop(messages, filteredMessages(messages), clk, 1, << >>),
           OpenAIMessage("system", systemInstruction, << >>, NoId, ""))

mapMessagesToOpenAI(messages, systemInstruction, clk) ==
    mapLoop(messages, filteredMessages(messages), clk, 1,
            << OpenAIMessage("system", systemInstruction, << >>, NoId, "") >>)

(***************************************************************************)
(* transformOpenAIResponseToGemini (geminiService.ts 74-137).              *)
(* A response body `data` is null or an object whose choices field is      *)
(* absent or an array; a choice is null or an object whose message is      *)
(* absent or an object; message.content is a string ("" also stands for    *)
(* null and for the absent field: all three are falsy and read as "");     *)
(* message.tool_calls is a sequence (<< >> also stands for the absent      *)
(* field); a tool call is null or an object whose function is absent or    *)
(* carries a name ("" for absent) and an arguments string ("" for absent). *)
(***************************************************************************)
NullData == [k |-> "null"]
NoChoices == [k |-> "absent"]
NullChoice == [k |-> "null"]
NoMessage == [k |-> "absent"]
NullToolCall == [k |-> "null"]
NoFunction == [k |-> "absent"]

TextPart(s) == [k |-> "text", text |-> s]
FunctionCallPart(fc) == [k |-> "functionCall", functionCall |-> fc]

\* a GenerateContentResponse, or the exception that left the function
Returned(text, parts) == [threw |-> FALSE, text |-> text, parts |-> parts]
Thrown == [threw |-> TRUE, text |-> "", parts |-> << >>]

EmptyResponseText == "Received an empty or invalid response from the LLM."
InvalidMessageText == "Received an invalid message structure from the LLM."
MalformedToolCallText == "Received a malformed tool call from the LLM."
ToolCallErrorText == "Error processing tool call from LLM."

\* mutant of toolCallPart: arguments that do not parse are replaced by an
\* empty object and the call is passed on
toolCallPartLenient(toolCall) ==
    IF /\ toolCall # NullToolCall
       /\ toolCall.function # NoFunction
       /\ toolCall.function.arguments # ""
       /\ toolCall.function.name # ""
    THEN LET parsed == JSONparse(toolCall.function.arguments)
         IN  FunctionCallPart(FunctionCall(toolCall.function.name,
                                           IF parsed.ok THEN parsed.value ELSE JObj(Undefined)))
    ELSE TextPart(MalformedToolCallText)

\* lines 107-125: the part pushed for tool_calls[0]
toolCallPart(toolCall) ==
    IF /\ toolCall # NullToolCall
       /\ toolCall.function # NoFunction
       /\ toolCall.function.arguments # ""
       /\ toolCall.function.name # ""
    THEN LET parsed == JSONparse(toolCall.function.arguments)
         IN  IF parsed.ok
             THEN FunctionCallPart(FunctionCall(toolCall.function.name, parsed.value))
             ELSE TextPart(ToolCallErrorText)
    ELSE TextPart(MalformedToolCallText)

\* mutant of transformMessage: the last entry of tool_calls is read, not
\* the first
transformMessageLastCall(message) ==
    LET responseText == message.content
        textParts == IF message.content # "" THEN << TextPart(message.content) >> ELSE << >>
        parts == IF Len(message.tool_calls) > 0
                 THEN Append(textParts,
                             toolCallPart(message.tool_calls[Len(message.tool_calls)]))
                 ELSE textParts
    IN  Returned(responseText,
                 IF Len(parts) > 0 THEN parts
                 ELSE IF responseText # "" THEN << TextPart(responseText) >> ELSE << >>)

\* lines 100-136: a first choice that has a message
transformMessage(message) ==
    LET responseText == message.content
        textParts == IF message.content # "" THEN << TextPart(message.content) >> ELSE << >>
        parts == IF Len(message.tool_calls) > 0
                 THEN Append(textParts, toolCallPart(message.tool_calls[1]))
                 ELSE textParts
    IN  Returned(responseText,
                 IF Len(parts) > 0 THEN parts
                 ELSE IF responseText # "" THEN << TextPart(responseText) >> ELSE << >>)

\* mutant of transformOpenAIResponseToGemini: the `if (!message)` guard of
\* lines 88-98 is missing, so message.content is read from undefined
transformWithoutMessageGuard(data) ==
    IF data = NullData \/ data.choices = NoChoices \/ Len(data.choices.items) = 0
    THEN Returned(EmptyResponseText, << TextPart(EmptyResponseText) >>)
    ELSE IF data.choices.items[1] = NullChoice \/ data.choices.items[1].message = NoMessage
         THEN Thrown
         ELSE transformMessage(data.choices.items[1].message)

transformOpenAIResponseToGemini(data) ==
    IF data = NullData \/ data.choices = NoChoices \/ Len(data.choices.items) = 0
    THEN Returned(EmptyResponseText, << TextPart(EmptyResponseText) >>)
    ELSE IF data.choices.items[1] = NullChoice
         \* data.choices[0].message on a null choice: TypeError
         THEN Thrown
         ELSE IF data.choices.items[1].message = NoMessage
              THEN Returned(InvalidMessageText, << TextPart(InvalidMessageText) >>)
              ELSE transformMessage(data.choices.items[1].message)

(***************************************************************************)
(* generateResponse (geminiService.ts 139-212).  A call is kept as its     *)
(* arguments; requestBody is the JSON body it posts.                       *)
(***************************************************************************)
\* body.tools / body.tool_choice when the field is not set
NoTools == << >>
NoToolChoice == "absent"
\* toolsOpenAI (lines 14-31): the single declaration
toolsOpenAI == << [type |-> "function", name |-> "runN8NWorkflow"] >>

\* the arguments of one generateResponse invocation; connection is left out
\* while the provider stays the default 'lmstudio'
GenerateResponseCall(history, settings, modelName, allowTools) ==
    [history |-> history, settings |-> settings,
     modelName |-> modelName, allowTools |-> allowTools]

\* mutant of attachTools: the agent setting is not consulted
attachToolsWheneverAllowed(allowTools, settings) == allowTools

\* lines 188-191: if (allowTools && settings.n8nToolCalling)
attachTools(allowTools, settings) == allowTools /\ settings.n8nToolCalling

\* lines 185-191
requestBody(call, clk) ==
    [model |-> call.modelName,
     messages |-> mapMessagesToOpenAI(call.history, SystemInstruction, clk),
     tools |-> IF attachTools(call.allowTools, call.settings) THEN toolsOpenAI ELSE NoTools,
     tool_choice |-> IF attachTools(call.allowTools, call.settings) THEN "auto"
                     ELSE NoToolChoice]

\* what fetch and response.json() hand back: fetch rejects (FetchFailed), the
\* status is not ok (HttpError), the body is no JSON (NotJson), or a parsed
\* body (FetchOk).  Where only FetchFailed and FetchOk are drawn, FetchFailed
\* stands for the three failures: the caller cannot tell them apart
FetchFailed == [k |-> "failed"]
HttpError(status, errorBody) == [k |-> "http", status |-> status, errorBody |-> errorBody]
NotJson == [k |-> "notjson"]
FetchOk(data) == [k |-> "ok", data |-> data]

\* lines 193-211: the result of the call, or Thrown (the catch rethrows every
\* exception of the try block, those of the transform included)
generateResponseResult(outcome) ==
    IF outcome.k # "ok" THEN Thrown
    ELSE transformOpenAIResponseToGemini(outcome.data)

\* ConnectionSettings (the fields generateResponse reads; workflows only
\* enter the system instruction)
ConnectionSettings(provider, openRouterApiKey) ==
    [provider |-> provider, lmStudioUrl |-> "http://localhost:1234/v1",
     openRouterApiKey |-> openRouterApiKey, openRouterModel |-> "openai/gpt-4o"]

\* the Error objects of generateResponse: `Unsupported provider: ${provider}...`
\* (148), `Failed to get response from ${provider}. Status: ${status}.` (203),
\* `Failed to get response from ${provider}. Check console for details.` (210)
NoStatus == "none"
Error(text, provider, status) == [text |-> text, provider |-> provider, status |-> status]
NoError == Error("", "", NoStatus)
UnsupportedProviderError(provider) == Error("Unsupported provider", provider, NoStatus)
StatusError(provider, status) == Error("Failed to get response. Status", provider, status)
CheckConsoleError(provider) ==
    Error("Failed to get response. Check console for details", provider, NoStatus)

\* lines 176-178; lmStudioUrl.replace(/\/v1\/?$/, '') strips the default's /v1
LocalUrl == "http://localhost:1234/v1/chat/completions"
OpenRouterUrl == "https://openrouter.ai/api/v1/chat/completions"
requestUrl(connection) ==
    IF connection.provider = "lmstudio" THEN LocalUrl ELSE OpenRouterUrl

\* mutant of requestHeaders: the bearer token is attached whenever a key is set
requestHeadersWithAnyKey(connection) ==
    [contentType |-> "application/json",
     authorization |-> IF connection.openRouterApiKey # ""
                       THEN [k |-> "Bearer", token |-> connection.openRouterApiKey]
                       ELSE [k |-> "absent"]]

\* lines 180-183; NoHeader is the header that is not set
NoHeader == [k |-> "absent"]
requestHeaders(connection) ==
    [contentType |-> "application/json",
     authorization |-> IF connection.provider = "openrouter"
                       THEN [k |-> "Bearer", token |-> connection.openRouterApiKey]
                       ELSE NoHeader]

\* lines 193-207: what leaves the try block, the result or the exception
tryBlock(connection, outcome) ==
    CASE outcome.k = "failed" ->
            [result |-> Thrown, error |-> Error("TypeError: Failed to fetch", "", NoStatus)]
      [] outcome.k = "http" ->
            [result |-> Thrown, error |-> StatusError(connection.provider, outcome.status)]
      [] outcome.k = "notjson" ->
            [result |-> Thrown, error |-> Error("SyntaxError", "", NoStatus)]
      [] OTHER ->
            LET result == transformOpenAIResponseToGemini(outcome.data)
            IN  [result |-> result,
                 error |-> IF result.threw THEN Error("TypeError", "", NoStatus) ELSE NoError]

\* no fetch was made
NoRequest == [sent |-> FALSE]

\* mutant of generateResponse: the provider check of lines 147-149 is missing
generateResponseAnyProvider(call, connection, clk, outcome) ==
    LET inner == tryBlock(connection, outcome)
    IN  [request |-> [sent |-> TRUE,
                      url |-> requestUrl(connection),
                      headers |-> requestHeaders(connection),
                      body |-> requestBody(call, clk)],
         result |-> inner.result,
         error |-> IF inner.result.threw THEN CheckConsoleError(connection.provider)
                   ELSE NoError]

\* generateResponse (139-212) as a whole: the request it sent, the result it
\* returned or Thrown, and the Error it raised to its caller
generateResponse(call, connection, clk, outcome) ==
    IF connection.provider # "lmstudio" /\ connection.provider # "openrouter"
    THEN [request |-> NoRequest, result |-> Thrown,
          error |-> UnsupportedProviderError(connection.provider)]
    ELSE LET inner == tryBlock(connection, outcome)
         IN  [request |-> [sent |-> TRUE,
                           url |-> requestUrl(connection),
                           headers |-> requestHeaders(connection),
                           body |-> requestBody(call, clk)],
              result |-> inner.result,
              error |-> IF inner.result.threw THEN CheckConsoleError(connection.provider)
                        ELSE NoError]

(***************************************************************************)
(* Response bodies                                                         *)
(***************************************************************************)
Body(choices) == [k |-> "obj", choices |-> [k |-> "array", items |-> choices]]
Choice(message) == [k |-> "obj", message |-> message]
Msg(content, tool_calls) == [k |-> "msg", content |-> content, tool_calls |-> tool_calls]
ToolCall(name, arguments) ==
    [k |-> "obj", function |-> [k |-> "fn", name |-> name, arguments |-> arguments]]

ValidToolCall == ToolCall("runN8NWorkflow", "{\"workflowName\":\"Nightly Backup\"}")

\* the bodies the orchestrator model lets the provider answer with
OrchestratorBodies ==
    { [k |-> "obj", choices |-> NoChoices],
      Body(<< >>),
      Body(<< NullChoice >>),
      Body(<< Choice(Msg("Hi there", << >>)) >>),
      Body(<< Choice(Msg("", << ValidToolCall >>)) >>),
      Body(<< Choice(Msg("Hi there", << ValidToolCall >>)) >>),
      Body(<< Choice(Msg("", << ToolCall("runN8NWorkflow", "{workflowName:") >>)) >>),
      Body(<< Choice(Msg("", << ToolCall("", "{}") >>)) >>),
      Body(<< Choice(Msg("Hi there", << ToolCall("runN8NWorkflow", "") >>)) >>),
      Body(<< Choice(Msg("", << NullToolCall, ValidToolCall >>)) >>),
      Body(<< Choice(NoMessage) >>) }

(***************************************************************************)
(* The orchestrators: App of src/App.tsx and of src/unnamed/part_004       *)
(***************************************************************************)
VARIABLES
    impl,                   \* which App component runs: "App" (src/App.tsx) or "P4" (part_004)
    messages,               \* useState messages: the transcript
    isProcessing,           \* useState isProcessing: the busy flag
    agentSettings,          \* useState agentSettings (the two flags the turn reads)
    webhookStatus,          \* useState webhookStatus (part_004)
    lastWebhookRequestRef,  \* useRef lastWebhookRequestRef (part_004)
    turn,                   \* the locals and the position of the running handleSendMessage
    pure,                   \* one call of a pure function of geminiService.ts: its input and result
    isListening,            \* useState isListening (part_004)
    recognition,            \* ChatWindow's SpeechRecognition: its state and its onend handler
    onendTurn,              \* the handleSendMessage invocation made by recognition.onend
    models,                 \* useState models: the model list of the sidebar
    selectedModel,          \* useState selectedModel
    refresh                 \* the running handleRefreshModels: its position and its closure

\* the state of the speech input
voiceVars == << isListening, recognition, onendTurn >>

\* the state of the model selection
modelVars == << models, selectedModel, refresh >>

vars == << impl, messages, isProcessing, agentSettings, webhookStatus,
           lastWebhookRequestRef, turn, pure, voiceVars, modelVars >>

\* no pure-function call is under study
NoPureCall == [fn |-> "none"]

\* INITIAL_MESSAGES (part_005 29-37)
WelcomeText == "Welcome to your Stateful Liquid Audio Agent!"
INITIAL_MESSAGES == << Message("assistant", WelcomeText, NoCall, FALSE) >>

\* INITIAL_MODELS[0].name (part_005 4), the selected local model
SelectedModelName == "Llama-3-8B-Instruct"

\* what the user can submit; " " is blank after trim()
UserInputs == { "run my backup workflow", " " }
trim(content) == IF content = " " THEN "" ELSE content

GenericErrorText ==
    "Sorry, I encountered an error. Please check my connection settings or the console for more details."
AudioErrorText == "Sorry, I couldn't generate an audio response."
errorMessage == Message("assistant", GenericErrorText, NoCall, TRUE)
audioErrorMessage == Message("assistant", AudioErrorText, NoCall, TRUE)

\* functionCall.args?.workflowName as string || 'Unknown Workflow', as the
\* template literals print it
workflowName(functionCall) ==
    IF functionCall.args.t = "obj" /\ Truthy(functionCall.args.workflowName)
    THEN functionCall.args.workflowName.v
    ELSE "Unknown Workflow"

\* `Executing N8N workflow: <strong>${workflowName}</strong>...`
ExecutingText(name) ==
    CASE name = "Nightly Backup" -> "Executing N8N workflow: <strong>Nightly Backup</strong>..."
      [] name = "42" -> "Executing N8N workflow: <strong>42</strong>..."
      [] OTHER -> "Executing N8N workflow: <strong>Unknown Workflow</strong>..."

\* `Successfully executed the "${workflowName}" workflow.`
SuccessText(name) ==
    CASE name = "Nightly Backup" -> "Successfully executed the \"Nightly Backup\" workflow."
      [] name = "42" -> "Successfully executed the \"42\" workflow."
      [] OTHER -> "Successfully executed the \"Unknown Workflow\" workflow."

\* mutant of toolMessage: the functionCall field is forgotten
toolMessageWithoutCall(functionCall) ==
    Message("assistant", ExecutingText(workflowName(functionCall)), NoCall, FALSE)

\* the two synthesized entries of the tool branch
toolMessage(functionCall) ==
    Message("assistant", ExecutingText(workflowName(functionCall)), functionCall, FALSE)
toolExecutionMessage(functionCall) ==
    Message("tool", SuccessText(workflowName(functionCall)), NoCall, FALSE)

\* response.candidates?.[0]?.content.parts[0]; responsePart?.functionCall
hasFunctionCall(response) ==
    Len(response.parts) > 0 /\ response.parts[1].k = "functionCall"

\* App.tsx 79-87 / 118-126: a Content object as the mapper reads it (it has
\* parts, and neither content nor functionCall)
toContent(msg) ==
    Message(IF msg.role = "tool" THEN "user" ELSE msg.role, "undefined", NoCall, FALSE)
toHistory(msgs) == [i \in 1..Len(msgs) |-> toContent(msgs[i])]

NoSettings == [n8nToolCalling |-> FALSE, liquidAudio |-> FALSE]
NoCallPending == GenerateResponseCall(<< >>, NoSettings, "", FALSE)

\* the N8NExecutionResult a handler holds: neither handler has a statement
\* that calls N8NService.executeWorkflow, so it holds none
NotInvoked == [k |-> "notInvoked"]

\* the handler's locals when no turn runs; round and threw keep how the last
\* turn went
NoTurn(pc, round, threw) ==
    [pc |-> pc, currentMessages |-> << >>, finalMessages |-> << >>,
     settings |-> NoSettings, modelName |-> "", isFromVoice |-> FALSE,
     call |-> NoCallPending, gateway |-> NotInvoked, round |-> round, threw |-> threw]

\* the handler suspended in `await generateResponse(...)`
Awaiting(turnNow, finalMessages, call) ==
    [turnNow EXCEPT !.pc = "await", !.finalMessages = finalMessages,
                    !.call = call, !.round = @ + 1]

\* recognition.onend before handleMicClick has set it
NoHandler == [k |-> "none"]

\* Model (types.ts 18-23): the two fields the handlers read
Model(id, name) == [id |-> id, name |-> name]
\* setSelectedModel(null)
NullModel == [id |-> "null", name |-> "null"]
\* INITIAL_MODELS (part_005 3-8)
INITIAL_MODELS ==
    << Model("llama3", "Llama-3-8B-Instruct"),
       Model("mistral", "Mistral-7B-Instruct-v0.3"),
       Model("phi3", "Phi-3-mini-128k-instruct"),
       Model("gemma2", "Gemma-2-9B-It") >>

\* no handleRefreshModels is suspended in its fetch
NoRefresh == [pc |-> "idle", selectedModel |-> NullModel]

\* useState(INITIAL_MODELS), useState(INITIAL_MODELS[0])
ModelsInitial ==
    /\ models = INITIAL_MODELS
    /\ selectedModel = INITIAL_MODELS[1]
    /\ refresh = NoRefresh

\* no speech input is going on
VoiceIdle ==
    /\ isListening = FALSE
    /\ recognition = [state |-> "idle", onend |-> NoHandler]
    /\ onendTurn = NoTurn("idle", 0, FALSE)

Init ==
    /\ impl \in { "App", "P4" }
    /\ messages = INITIAL_MESSAGES
    /\ isProcessing = FALSE
    /\ agentSettings = [n8nToolCalling |-> TRUE, liquidAudio |-> TRUE]
    /\ webhookStatus = "disconnected"
    /\ lastWebhookRequestRef = "null"
    /\ turn = NoTurn("idle", 0, FALSE)
    /\ pure = NoPureCall
    /\ VoiceIdle
    /\ ModelsInitial

\* the first generateResponse call of a turn.  App.tsx 91 passes three
\* arguments (a Content[] history; modelName stays undefined, allowTools takes
\* its default true); part_004 383 passes all five
firstCall(currentMessages, settings, modelName) ==
    IF impl = "App"
    THEN GenerateResponseCall(toHistory(currentMessages), settings, "undefined", TRUE)
    ELSE GenerateResponseCall(currentMessages, settings, modelName, TRUE)

\* the generateResponse call after the tool branch.  App.tsx 128 passes
\* `false` as the fourth argument, which is modelName: allowTools takes its
\* default true.  part_004 408 recurses with allowTools = false
secondCall(finalMessages, settings, modelName) ==
    IF impl = "App"
    THEN GenerateResponseCall(toHistory(finalMessages), settings, "false", TRUE)
    ELSE GenerateResponseCall(finalMessages, settings, modelName, FALSE)

\* an invocation of handleSendMessage is suspended in an await
Outstanding(invocation) == invocation.pc \in { "await", "tts" }

\* the locals of a handleSendMessage invocation at its first await, for the
\* `messages` and `agentSettings` of the closure it runs in
firstAwait(closureMessages, closureSettings, content, isFromVoice) ==
    LET userMessage == Message("user", content, NoCall, FALSE)
        currentMessages == Append(closureMessages, userMessage)
    IN  [pc |-> "await",
         currentMessages |-> currentMessages,
         finalMessages |-> currentMessages,
         settings |-> closureSettings,
         modelName |-> SelectedModelName,
         isFromVoice |-> isFromVoice,
         call |-> firstCall(currentMessages, closureSettings, SelectedModelName),
         gateway |-> NotInvoked,
         round |-> 1,
         threw |-> FALSE]

\* handleSendMessage up to its first await (App.tsx 61-91, part_004 358-383),
\* called through the handler of the current render.  `turn` follows one such
\* invocation at a time
handleSendMessage(content, isFromVoice) ==
    /\ Len(messages) < MaxMessages
    /\ IF trim(content) = "" \/ isProcessing
       THEN UNCHANGED vars
       ELSE     /\ ~Outstanding(turn)
                /\ isProcessing' = TRUE
                /\ turn' = firstAwait(messages, agentSettings, content, isFromVoice)
                /\ messages' = turn'.currentMessages
                /\ UNCHANGED << impl, agentSettings, webhookStatus, lastWebhookRequestRef, pure, modelVars, voiceVars >>

\* the finally block (App.tsx 157-160, part_004 451-454)
finallyBlock(threw) ==
    /\ isProcessing' = FALSE
    /\ turn' = NoTurn("done", turn.round, threw)

\* the user message of the running turn: the last user entry of msgs (0: none)
lastUser(msgs) ==
    LET users == { i \in 1..Len(msgs) : msgs[i].role = "user" }
    IN  IF users = {} THEN 0 ELSE CHOOSE i \in users : \A u \in users : u <= i

\* mutant of catchBlock: the failed request is sent again
catchBlockRetrying ==
    /\ messages' = Append(messages, errorMessage)
    /\ turn' = Awaiting(turn, turn.finalMessages, turn.call)
    /\ UNCHANGED isProcessing

\* mutant of catchBlock: the transcript is rolled back to where the turn began
catchBlockRollingBack ==
    /\ messages' = Append(SubSeq(turn.finalMessages, 1, lastUser(turn.finalMessages) - 1),
                          errorMessage)
    /\ finallyBlock(TRUE)

\* the catch block (App.tsx 148-156, part_004 442-450), then finally
catchBlock ==
    /\ messages' = Append(messages, errorMessage)
    /\ finallyBlock(TRUE)

\* the tool branch (App.tsx 96-128, part_004 386-408): push the two entries,
\* setMessages, call generateResponse again
toolBranch(response) ==
    LET functionCall == response.parts[1].functionCall
        finalMessages == turn.finalMessages
                            \o << toolMessage(functionCall), toolExecutionMessage(functionCall) >>
    IN  /\ turn.round <= MaxToolRounds
        /\ messages' = finalMessages
        /\ turn' = Awaiting(turn, finalMessages,
                            secondCall(finalMessages, turn.settings, turn.modelName))
        /\ UNCHANGED isProcessing

\* mutant of finalAssistantMessage: the new list is built from the state
\* variable `messages` of the handler's closure, which lacks the user message
finalAssistantMessageFromClosure(text) ==
    messages' = Append(SubSeq(turn.currentMessages, 1, Len(turn.currentMessages) - 1),
                       Message("assistant", text, NoCall, FALSE))

\* push the assistant message and setMessages (App.tsx 129-146, part_004 416-424)
finalAssistantMessage(text) ==
    messages' = Append(turn.finalMessages, Message("assistant", text, NoCall, FALSE))

Outcomes == { FetchFailed } \cup { FetchOk(data) : data \in OrchestratorBodies }

\* App.tsx 91-146: the first await returns
AppFirstResponse(outcome) ==
    /\ impl = "App" /\ turn.pc = "await" /\ turn.round = 1
    /\ LET response == generateResponseResult(outcome)
       IN  IF response.threw THEN catchBlock
           ELSE IF hasFunctionCall(response) THEN toolBranch(response)
           ELSE finalAssistantMessage(response.text) /\ finallyBlock(FALSE)
    /\ UNCHANGED << impl, agentSettings, webhookStatus, lastWebhookRequestRef, pure, modelVars, voiceVars >>

\* App.tsx 128-146: the second await returns
AppSecondResponse(outcome) ==
    /\ impl = "App" /\ turn.pc = "await" /\ turn.round = 2
    /\ LET finalResponse == generateResponseResult(outcome)
       IN  IF finalResponse.threw THEN catchBlock
           ELSE finalAssistantMessage(finalResponse.text) /\ finallyBlock(FALSE)
    /\ UNCHANGED << impl, agentSettings, webhookStatus, lastWebhookRequestRef, pure, modelVars, voiceVars >>

\* part_004 382-440: an await of processResponse returns
processResponse(outcome) ==
    /\ impl = "P4" /\ turn.pc = "await"
    /\ LET response == generateResponseResult(outcome)
       IN  IF response.threw THEN catchBlock
           ELSE IF hasFunctionCall(response) THEN toolBranch(response)
           ELSE /\ finalAssistantMessage(response.text)
                /\ IF turn.isFromVoice /\ turn.settings.liquidAudio
                   THEN /\ turn' = [turn EXCEPT !.pc = "tts"]
                        /\ UNCHANGED isProcessing
                   ELSE finallyBlock(FALSE)
    /\ UNCHANGED << impl, agentSettings, webhookStatus, lastWebhookRequestRef, pure, modelVars, voiceVars >>

\* part_004 426-440: await textToSpeech returns (ok) or throws
textToSpeechReturns(ok) ==
    /\ impl = "P4" /\ turn.pc = "tts"
    /\ messages' = IF ok THEN messages ELSE Append(messages, audioErrorMessage)
    /\ finallyBlock(FALSE)
    /\ UNCHANGED << impl, agentSettings, webhookStatus, lastWebhookRequestRef, pure, modelVars, voiceVars >>

\* App.tsx 163-165, part_004 457-459
handleClearChat ==
    /\ messages' = INITIAL_MESSAGES
    /\ UNCHANGED << impl, isProcessing, agentSettings, webhookStatus,
                    lastWebhookRequestRef, turn, pure, modelVars, voiceVars >>

\* Sidebar's setAgentSettings: one flag is flipped
setAgentSettings(key) ==
    /\ agentSettings' = [agentSettings EXCEPT ![key] = ~@]
    /\ UNCHANGED << impl, messages, isProcessing, webhookStatus,
                    lastWebhookRequestRef, turn, pure, modelVars, voiceVars >>

WebhookUuids == { "u1", "u2" }
WebhookText == "Received data from N8N Webhook"

\* part_004 497-526 with the effect of 258-331 it triggers: webhookStatus
\* follows webhookUrl, and initLastRequest reads the newest request (init is
\* "failed", "none" for an empty list, or its uuid)
handleSaveSettings(hasWebhookUrl, init) ==
    /\ impl = "P4"
    /\ IF ~hasWebhookUrl \/ init = "failed"
       THEN webhookStatus' = "disconnected" /\ UNCHANGED lastWebhookRequestRef
       ELSE /\ webhookStatus' = "connected"
            /\ lastWebhookRequestRef' = IF init = "none" THEN lastWebhookRequestRef ELSE init
    /\ UNCHANGED << impl, messages, isProcessing, agentSettings, turn, pure, modelVars, voiceVars >>

\* part_004 267-304: one run of the poller (latest is "failed", "none", or
\* the uuid of the newest request)
poll(latest) ==
    /\ impl = "P4" /\ webhookStatus = "connected"
    /\ IF latest = "failed"
       THEN /\ webhookStatus' = "disconnected"
            /\ UNCHANGED << messages, lastWebhookRequestRef >>
       ELSE IF latest = "none" \/ latest = lastWebhookRequestRef
       THEN UNCHANGED << messages, webhookStatus, lastWebhookRequestRef >>
       ELSE /\ IF lastWebhookRequestRef # "null"
               THEN /\ Cardinality({ i \in 1..Len(messages) : messages[i].role = "system" })
                        < MaxWebhooks
                    /\ messages' = Append(messages, Message("system", WebhookText, NoCall, FALSE))
               ELSE UNCHANGED messages
            /\ lastWebhookRequestRef' = latest
            /\ UNCHANGED webhookStatus
    /\ UNCHANGED << impl, isProcessing, agentSettings, turn, pure, modelVars, voiceVars >>

(***************************************************************************)
(* Speech input of part_004's ChatWindow (ChatWindow.tsx 69-200).          *)
(* handleMicClick starts the recognition and sets recognition.onend to a   *)
(* function of the render in which the button was clicked: it keeps that   *)
(* render's inputValue and onSendMessage, that is, a handleSendMessage     *)
(* whose messages, agentSettings and isProcessing are those of that        *)
(* render.  The button is disabled while isProcessing, so that             *)
(* isProcessing is false.  The model follows one invocation made through   *)
(* onend at a time (onendTurn), next to the one `turn` follows.            *)
(***************************************************************************)
\* handleMicClick (ChatWindow.tsx 124-150); inputValue is the text in the
\* input field.  recognition.start() throws while the last session has not
\* ended, which ends the click handler
handleMicClick(inputValue) ==
    /\ impl = "P4" /\ ~isProcessing
    /\ Len(messages) < MaxMessages
    /\ IF isListening
       THEN /\ isListening' = FALSE
            /\ recognition' = [recognition EXCEPT
                                  !.state = IF @ = "running" THEN "stopping" ELSE @]
            /\ IF trim(inputValue) = ""
               THEN UNCHANGED << messages, isProcessing, turn >>
               ELSE /\ ~Outstanding(turn)
                    /\ isProcessing' = TRUE
                    /\ turn' = firstAwait(messages, agentSettings, inputValue, TRUE)
                    /\ messages' = turn'.currentMessages
       ELSE IF recognition.state # "idle"
            THEN UNCHANGED << messages, isProcessing, turn, isListening, recognition >>
            ELSE /\ isListening' = TRUE
                 /\ recognition' = [state |-> "running",
                                    onend |-> [k |-> "closure",
                                               inputValue |-> inputValue,
                                               messages |-> messages,
                                               agentSettings |-> agentSettings]]
                 /\ UNCHANGED << messages, isProcessing, turn >>
    /\ UNCHANGED << impl, agentSettings, webhookStatus, lastWebhookRequestRef, pure, modelVars, onendTurn >>

\* the recognition's 'end' event: the onend handler runs (ChatWindow.tsx
\* 142-148) and, for a non-blank inputValue, calls its handleSendMessage,
\* whose guard reads the isProcessing of its render (false)
recognitionEnds ==
    /\ impl = "P4" /\ recognition.state # "idle"
    /\ recognition' = [recognition EXCEPT !.state = "idle"]
    /\ isListening' = FALSE
    /\ IF trim(recognition.onend.inputValue) = ""
       THEN UNCHANGED << messages, isProcessing, onendTurn >>
       ELSE /\ ~Outstanding(onendTurn)
            /\ isProcessing' = TRUE
            /\ onendTurn' = firstAwait(recognition.onend.messages,
                                       recognition.onend.agentSettings,
                                       recognition.onend.inputValue, TRUE)
            /\ messages' = onendTurn'.currentMessages
    /\ UNCHANGED << impl, agentSettings, webhookStatus, lastWebhookRequestRef, turn, pure, modelVars >>

\* part_004 382-454 for the invocation made through onend: an await of its
\* processResponse returns
onendProcessResponse(outcome) ==
    /\ impl = "P4" /\ onendTurn.pc = "await"
    /\ LET response == generateResponseResult(outcome)
       IN  IF response.threw
           THEN /\ messages' = Append(messages, errorMessage)
                /\ isProcessing' = FALSE
                /\ onendTurn' = NoTurn("done", onendTurn.round, TRUE)
           ELSE IF hasFunctionCall(response)
           THEN LET functionCall == response.parts[1].functionCall
                    finalMessages ==
                        onendTurn.finalMessages
                            \o << toolMessage(functionCall), toolExecutionMessage(functionCall) >>
                IN  /\ onendTurn.round <= MaxToolRounds
                    /\ messages' = finalMessages
                    /\ onendTurn' = [onendTurn EXCEPT
                                       !.finalMessages = finalMessages,
                                       !.call = secondCall(finalMessages, onendTurn.settings,
                                                           onendTurn.modelName),
                                       !.round = @ + 1]
                    /\ UNCHANGED isProcessing
           ELSE /\ messages' = Append(onendTurn.finalMessages,
                                      Message("assistant", response.text, NoCall, FALSE))
                /\ IF onendTurn.settings.liquidAudio
                   THEN /\ onendTurn' = [onendTurn EXCEPT !.pc = "tts"]
                        /\ UNCHANGED isProcessing
                   ELSE /\ isProcessing' = FALSE
                        /\ onendTurn' = NoTurn("done", onendTurn.round, FALSE)
    /\ UNCHANGED << impl, agentSettings, webhookStatus, lastWebhookRequestRef, turn, pure, modelVars,
                    isListening, recognition >>

\* part_004 426-454 for the invocation made through onend
onendTextToSpeechReturns(ok) ==
    /\ impl = "P4" /\ onendTurn.pc = "tts"
    /\ messages' = IF ok THEN messages ELSE Append(messages, audioErrorMessage)
    /\ isProcessing' = FALSE
    /\ onendTurn' = NoTurn("done", onendTurn.round, FALSE)
    /\ UNCHANGED << impl, agentSettings, webhookStatus, lastWebhookRequestRef, turn, pure, modelVars,
                    isListening, recognition >>

Next ==
    \/ \E content \in UserInputs, isFromVoice \in BOOLEAN :
          /\ impl = "App" => ~isFromVoice
          /\ handleSendMessage(content, isFromVoice)
    \/ \E outcome \in Outcomes : AppFirstResponse(outcome)
    \/ \E outcome \in Outcomes : AppSecondResponse(outcome)
    \/ \E outcome \in Outcomes : processResponse(outcome)
    \/ \E ok \in BOOLEAN : textToSpeechReturns(ok)
    \/ handleClearChat
    \/ \E key \in { "n8nToolCalling", "liquidAudio" } : setAgentSettings(key)
    \/ \E hasWebhookUrl \in BOOLEAN, init \in { "failed", "none" } \cup WebhookUuids :
          handleSaveSettings(hasWebhookUrl, init)
    \/ \E latest \in { "failed", "none" } \cup WebhookUuids : poll(latest)

Spec == Init /\ [][Next]_vars

(***************************************************************************)
(* Properties of the orchestrators, checked under Spec                     *)
(***************************************************************************)
ZeroClock(history) == [i \in 1..Len(history) |-> 0]

\* the handler is suspended in the generateResponse call of its n-th round
AwaitingRound(n) == turn.pc = "await" /\ turn.round = n

\* the tool entries the running turn has pushed after its user message
TurnPairs(msgs) ==
    Cardinality({ i \in 1..Len(msgs) : i > lastUser(msgs) /\ msgs[i].role = "tool" })

\* a step in which an await of generateResponse returns with `outcome`
ResponseStep(outcome) ==
    \/ AppFirstResponse(outcome)
    \/ AppSecondResponse(outcome)
    \/ processResponse(outcome)

IsPrefix(s, t) == Len(s) <= Len(t) /\ SubSeq(t, 1, Len(s)) = s

\* C1 (single-call cap): whenever a turn waits for its second completion
\* round, the request body of that round carries neither tools nor
\* tool_choice, whatever n8nToolCalling is.
SingleCallCap ==
    AwaitingRound(2) =>
        LET body == requestBody(turn.call, ZeroClock(turn.call.history))
        IN  body.tools = NoTools /\ body.tool_choice = NoToolChoice

\* C2 (one tool round per turn): a turn issues at most two completion
\* requests and pushes at most one assistant-call/tool pair; a function call
\* in the answer to the second request is not honoured.
OneToolRoundPerTurn ==
    /\ turn.round <= 2
    /\ turn.pc = "await" => TurnPairs(turn.finalMessages) <= 1

\* C3 (turn termination, as a property a finite run refutes): the terminal
\* state is reached directly or via one tool round, that is, when the second
\* completion round returns, whatever the provider answered, the handler does
\* not suspend in another completion request.
TurnEndsAfterSecondRound ==
    [][(AwaitingRound(2) /\ turn' # turn) => turn'.pc # "await"]_vars

\* C4 (failure semantics): a step in which generateResponse throws, in any
\* round, appends exactly the one generic failure message, ends the turn with
\* the busy flag cleared and leaves no request pending (no retry).
FailureSemantics ==
    [][\A outcome \in Outcomes :
          (generateResponseResult(outcome).threw /\ ResponseStep(outcome)) =>
              /\ messages' = Append(messages, errorMessage)
              /\ isProcessing' = FALSE
              /\ turn'.pc = "done" /\ turn'.threw
              /\ turn'.round = turn.round
              /\ turn'.call = NoCallPending]_vars

\* C4 witness: a turn whose second round threw has ended with the failure
\* message last
FailureSemanticsWitness ==
    /\ turn.pc = "done" /\ turn.threw /\ turn.round = 2
    /\ messages[Len(messages)] = errorMessage
    /\ ~isProcessing

\* C5 (no rollback on failure): when generateResponse throws and the
\* transcript still begins with what the turn built (it was not cleared
\* meanwhile), the transcript keeps all of it, in order, and gains the failure
\* message as its last entry; what the turn built ends with its user message
\* when round 1 fails and with user, assistant-call, tool when round 2 fails.
NoRollbackOnFailure ==
    [][\A outcome \in Outcomes :
          ( /\ generateResponseResult(outcome).threw
            /\ ResponseStep(outcome)
            /\ IsPrefix(turn.finalMessages, messages) ) =>
              LET built == turn.finalMessages
                  u == lastUser(built)
              IN  /\ IsPrefix(built, messages')
                  /\ SubSeq(messages', 1, Len(messages)) = messages
                  /\ Len(messages') = Len(messages) + 1
                  /\ messages'[Len(messages')] = errorMessage
                  /\ turn.round = 1 => u = Len(built)
                  /\ turn.round = 2 =>
                        /\ u = Len(built) - 2
                        /\ built[u + 1].role = "assistant"
                        /\ built[u + 1].functionCall # NoCall
                        /\ built[u + 2].role = "tool"]_vars

\* C5 witness: round 2 failed and the transcript ends with user,
\* assistant-call, tool, failure message
NoRollbackWitness ==
    /\ turn.pc = "done" /\ turn.threw /\ turn.round = 2
    /\ Len(messages) >= 4
    /\ LET n == Len(messages)
       IN  /\ messages[n - 3].role = "user"
           /\ messages[n - 2].functionCall # NoCall
           /\ messages[n - 1].role = "tool"
           /\ messages[n] = errorMessage

\* C6 (transcript invariant): every tool-role entry of the transcript comes
\* directly after an assistant-role entry that carries a functionCall.
ToolFollowsCall ==
    \A i \in 1..Len(messages) :
        messages[i].role = "tool" =>
            /\ i > 1
            /\ messages[i - 1].role = "assistant"
            /\ messages[i - 1].functionCall # NoCall

\* C6 witness: a transcript with a tool entry, a webhook entry after it and a
\* failure message
ToolFollowsCallWitness ==
    \E i, j, k \in 1..Len(messages) :
        /\ i < j
        /\ messages[i].role = "tool"
        /\ messages[j].role = "system"
        /\ messages[k].isError

(***************************************************************************)
(* The pure functions of geminiService.ts, each applied to one input drawn *)
(* from a bounded set: MapSpec for mapMessagesToOpenAI, TransformSpec for  *)
(* the response half of generateResponse.                                  *)
(***************************************************************************)
\* the messages a history handed to the mapper is made of
MapAlphabet ==
    { Message("user", "run my backup workflow", NoCall, FALSE),
      Message("assistant", "Hi there", NoCall, FALSE),
      toolMessage(FunctionCall("runN8NWorkflow", JObj(JStr("Nightly Backup")))),
      toolMessage(FunctionCall("sendEmail", JObj(Undefined))),
      toolExecutionMessage(FunctionCall("runN8NWorkflow", JObj(JStr("Nightly Backup")))),
      Message("system", WebhookText, NoCall, FALSE) }

Histories == UNION { [1..n -> MapAlphabet] : n \in 0..MaxHistory }

\* the readings Date.now() can give along one run of the loop
Clocks(history) ==
    { clk \in [1..Len(history) -> 0..MaxClock] :
        \A i, j \in 1..Len(history) : i <= j => clk[i] <= clk[j] }

\* the tool calls, messages and bodies a provider can answer with
ToolCalls ==
    { NullToolCall, [k |-> "obj", function |-> NoFunction] }
        \cup { ToolCall(name, arguments) :
                 name \in { "", "runN8NWorkflow" }, arguments \in ArgStrings }

Bodies ==
    { NullData, [k |-> "obj", choices |-> NoChoices],
      Body(<< >>), Body(<< NullChoice >>), Body(<< Choice(NoMessage) >>) }
        \cup { Body(<< Choice(Msg(content, tool_calls)) >>) :
                 content \in { "", "Hi there" },
                 tool_calls \in UNION { [1..n -> ToolCalls] : n \in 0..MaxToolCalls } }

PureOrchestratorInit ==
    /\ impl = "P4"
    /\ messages = INITIAL_MESSAGES
    /\ isProcessing = FALSE
    /\ agentSettings = [n8nToolCalling |-> TRUE, liquidAudio |-> TRUE]
    /\ webhookStatus = "disconnected"
    /\ lastWebhookRequestRef = "null"
    /\ turn = NoTurn("idle", 0, FALSE)
    /\ VoiceIdle
    /\ ModelsInitial

PureUnchanged ==
    UNCHANGED << impl, messages, isProcessing, agentSettings, webhookStatus,
                 lastWebhookRequestRef, turn, voiceVars, modelVars >>

MapInit ==
    /\ PureOrchestratorInit
    /\ \E history \in Histories : \E clk \in Clocks(history) :
          pure = [fn |-> "map", history |-> history, clk |-> clk,
                  done |-> FALSE, out |-> << >>]

\* one call mapMessagesToOpenAI(history, systemInstruction)
ApplyMap ==
    /\ pure.fn = "map" /\ ~pure.done
    /\ pure' = [pure EXCEPT !.done = TRUE,
                            !.out = mapMessagesToOpenAI(pure.history, SystemInstruction, pure.clk)]
    /\ PureUnchanged

MapSpec == MapInit /\ [][ApplyMap]_vars

TransformInit ==
    /\ PureOrchestratorInit
    /\ \E outcome \in { FetchFailed } \cup { FetchOk(data) : data \in Bodies } :
          pure = [fn |-> "generate", outcome |-> outcome, done |-> FALSE, result |-> Thrown]

\* the part of one generateResponse call that follows the fetch
ApplyGenerate ==
    /\ pure.fn = "generate" /\ ~pure.done
    /\ pure' = [pure EXCEPT !.done = TRUE, !.result = generateResponseResult(pure.outcome)]
    /\ PureUnchanged

TransformSpec == TransformInit /\ [][ApplyGenerate]_vars

(***************************************************************************)
(* Properties of mapMessagesToOpenAI, checked under MapSpec                *)
(***************************************************************************)
Mapped == pure.fn = "map" /\ pure.done

IsAssistantCall(msg) == msg.role = "assistant" /\ msg.functionCall # NoCall

\* tool messages of a history with no assistant function-call message before them
Orphans(history) ==
    { i \in 1..Len(history) :
        /\ history[i].role = "tool"
        /\ \A j \in 1..(i - 1) : ~IsAssistantCall(history[j]) }

\* seq without the positions in drop
DropAt(seq, drop) ==
    LET keep == SelectSeq([i \in 1..Len(seq) |-> i], LAMBDA i : i \notin drop)
    IN  [i \in 1..Len(keep) |-> seq[keep[i]]]

CountRole(seq, role) == Cardinality({ i \in 1..Len(seq) : seq[i].role = role })

\* C7 (correlation uniqueness): in every mapped list, each tool entry's
\* tool_call_id is the call id of exactly one assistant entry before it.
CorrelationUnique ==
    Mapped =>
        \A i \in 1..Len(pure.out) :
            pure.out[i].role = "tool" =>
                Cardinality({ j \in 1..(i - 1) :
                                /\ pure.out[j].role = "assistant"
                                /\ pure.out[j].tool_calls # << >>
                                /\ pure.out[j].tool_calls[1].id = pure.out[i].tool_call_id }) = 1

\* C8 (orphan tool drop): a tool message with no assistant function-call
\* message before it yields no entry, and the mapped list is the one the
\* history without those messages maps to.
OrphanToolDrop ==
    Mapped =>
        LET orphans == Orphans(pure.history)
        IN  /\ CountRole(pure.out, "tool")
                 = CountRole(pure.history, "tool") - Cardinality(orphans)
            /\ pure.out = mapMessagesToOpenAI(DropAt(pure.history, orphans), SystemInstruction,
                                              DropAt(pure.clk, orphans))

\* C8 witness: a mapped history with an orphan tool message, a correlated
\* one and other messages
OrphanToolDropWitness ==
    /\ Mapped
    /\ Orphans(pure.history) # {}
    /\ CountRole(pure.out, "tool") = 1
    /\ CountRole(pure.out, "user") >= 1

\* the history holds only user, assistant-without-call and system messages
PlainHistory(history) ==
    \A i \in 1..Len(history) :
        /\ history[i].role \in { "user", "assistant", "system" }
        /\ history[i].functionCall = NoCall

\* C9 (mapping correctness): the mapped list starts with the one system
\* entry, which holds the system instruction; system messages of the history
\* yield no entry; the N user and assistant-without-call messages of a plain
\* history yield N entries after it with their roles and contents in order.
MappingCorrectness ==
    Mapped =>
        /\ pure.out[1] = OpenAIMessage("system", SystemInstruction, << >>, NoId, "")
        /\ CountRole(pure.out, "system") = 1
        /\ PlainHistory(pure.history) =>
              LET plain == SelectSeq(pure.history, LAMBDA msg : msg.role # "system")
              IN  /\ Len(pure.out) = Len(plain) + 1
                  /\ \A i \in 1..Len(plain) :
                        /\ pure.out[i + 1].role = plain[i].role
                        /\ pure.out[i + 1].content = plain[i].content

\* C9 witness: a plain history with a user, an assistant and a system message
MappingCorrectnessWitness ==
    /\ Mapped
    /\ PlainHistory(pure.history)
    /\ CountRole(pure.history, "system") >= 1
    /\ CountRole(pure.history, "user") >= 1
    /\ CountRole(pure.history, "assistant") >= 1
    /\ Len(pure.out) = 3

(***************************************************************************)
(* Properties of generateResponse's response handling, under TransformSpec *)
(***************************************************************************)
Generated == pure.fn = "generate" /\ pure.done

\* the body has no non-empty choices array, or its first choice is an object
\* without a message
Degenerate(data) ==
    \/ data = NullData
    \/ data.choices = NoChoices
    \/ Len(data.choices.items) = 0
    \/ /\ data.choices.items[1] # NullChoice
       /\ data.choices.items[1].message = NoMessage

HasFunctionCallPart(result) ==
    \E i \in 1..Len(result.parts) : result.parts[i].k = "functionCall"

MalformedFirstToolCall(data) ==
    /\ data # NullData /\ data.choices # NoChoices /\ Len(data.choices.items) > 0
    /\ data.choices.items[1] # NullChoice
    /\ data.choices.items[1].message # NoMessage
    /\ Len(data.choices.items[1].message.tool_calls) > 0
    /\ LET toolCall == data.choices.items[1].message.tool_calls[1]
       IN  \/ toolCall = NullToolCall
           \/ toolCall.function = NoFunction
           \/ toolCall.function.name = ""
           \/ toolCall.function.arguments = ""
           \/ ~JSONparse(toolCall.function.arguments).ok

\* C11 (malformed tool-call arguments): when the answer to a completion
\* request has a malformed first tool call, generateResponse returns (it does
\* not throw) a result without functionCall, and the step that receives it
\* ends the turn on the tool-free path: the transcript becomes what the turn
\* had built followed by one assistant entry without functionCall, and no
\* further request is issued.
MalformedToolCallIsToolFree ==
    [][\A outcome \in Outcomes :
          ( /\ outcome # FetchFailed
            /\ MalformedFirstToolCall(outcome.data)
            /\ ResponseStep(outcome) ) =>
              LET result == generateResponseResult(outcome)
              IN  /\ ~result.threw
                  /\ ~HasFunctionCallPart(result)
                  /\ turn'.pc # "await"
                  /\ turn'.round = turn.round
                  /\ messages' = Append(turn.finalMessages,
                                        Message("assistant", result.text, NoCall, FALSE))]_vars

\* C11 witness: a turn that got a malformed tool call without content in
\* round 1 is over after one request, with user and assistant entry last
MalformedToolCallWitness ==
    /\ turn.pc = "done" /\ turn.round = 1 /\ ~turn.threw
    /\ Len(messages) >= 2
    /\ messages[Len(messages) - 1].role = "user"
    /\ messages[Len(messages)] = Message("assistant", "", NoCall, FALSE)

\* C13 (tool entry reports the actual gateway outcome): every tool entry the
\* running turn has pushed was pushed after the handler invoked
\* N8NService.executeWorkflow, and it is success-flavored only if the result
\* the handler holds reports success.
GatewayOutcomeReported ==
    \A i \in (Len(turn.currentMessages) + 1)..Len(turn.finalMessages) :
        turn.finalMessages[i].role = "tool" =>
            /\ turn.gateway # NotInvoked
            /\ turn.finalMessages[i].content
                  = SuccessText(workflowName(turn.finalMessages[i - 1].functionCall))
               => turn.gateway.success

\* a step in which handleSendMessage passes its guard and starts a turn
TurnStarts == turn.pc # "await" /\ turn'.pc = "await" /\ turn'.round = 1

\* C17 (tool-turn protocol): the second request's message list is the
\* mapping of the starting transcript extended by the user message, the
\* assistant-call entry and the tool entry, so it has an assistant tool_calls
\* entry directly followed by a tool entry with the same call id; and when
\* round 2 returns a result, the transcript becomes the starting transcript
\* followed by user, assistant-call, tool, assistant(text of round 2) and the
\* turn is over.
ToolTurnProtocol ==
    [][AwaitingRound(2) =>
          LET body == requestBody(turn.call, ZeroClock(turn.call.history))
              n == Len(turn.currentMessages)
          IN  /\ Len(turn.finalMessages) = n + 2
              /\ SubSeq(turn.finalMessages, 1, n) = turn.currentMessages
              /\ turn.currentMessages[n].role = "user"
              /\ IsAssistantCall(turn.finalMessages[n + 1])
              /\ turn.finalMessages[n + 2].role = "tool"
              /\ body.messages = mapMessagesToOpenAI(turn.finalMessages, SystemInstruction,
                                                     ZeroClock(turn.finalMessages))
              /\ \E i \in 1..(Len(body.messages) - 1) :
                    /\ body.messages[i].role = "assistant"
                    /\ body.messages[i].tool_calls # << >>
                    /\ body.messages[i + 1].role = "tool"
                    /\ body.messages[i + 1].tool_call_id = body.messages[i].tool_calls[1].id
              /\ \A outcome \in Outcomes :
                    (ResponseStep(outcome) /\ ~generateResponseResult(outcome).threw) =>
                        /\ messages' = Append(turn.finalMessages,
                                              Message("assistant",
                                                      generateResponseResult(outcome).text,
                                                      NoCall, FALSE))
                        /\ turn'.pc # "await"]_vars

ParsingAnomaly(data) ==
    \/ Degenerate(data)
    \/ /\ MalformedFirstToolCall(data)
       /\ data.choices.items[1].message.content = ""

\* C19 (parsing anomalies become visible text): when a response that is
\* anomalous at the parsing level is received, the assistant entry the turn
\* appends has non-empty content.
AnomalyBecomesVisibleText ==
    [][\A outcome \in Outcomes :
          ( /\ outcome # FetchFailed
            /\ ParsingAnomaly(outcome.data)
            /\ ResponseStep(outcome) ) =>
              /\ messages'[Len(messages')].role = "assistant"
              /\ messages'[Len(messages')].content # ""]_vars

(***************************************************************************)
(* VoiceSpec: part_004 with the speech input of its ChatWindow             *)
(***************************************************************************)
VoiceInit == Init /\ impl = "P4"

VoiceNext ==
    \/ \E content \in UserInputs : handleSendMessage(content, FALSE)
    \/ \E inputValue \in UserInputs : handleMicClick(inputValue)
    \/ recognitionEnds
    \/ \E outcome \in Outcomes : processResponse(outcome)
    \/ \E ok \in BOOLEAN : textToSpeechReturns(ok)
    \/ \E outcome \in Outcomes : onendProcessResponse(outcome)
    \/ \E ok \in BOOLEAN : onendTextToSpeechReturns(ok)

VoiceSpec == VoiceInit /\ [][VoiceNext]_vars

\* C16 (one turn at a time): at most one invocation of handleSendMessage is
\* past its busy-flag guard and not yet finished.
OneTurnAtATime == ~(Outstanding(turn) /\ Outstanding(onendTurn))

(***************************************************************************)
(* GenerateSpec: one call of generateResponse as a whole, made by          *)
(* processResponse of part_004 in round 1 or in round 2 of a turn, for     *)
(* connection settings and fetch outcomes drawn from bounded sets; the     *)
(* provider is drawn from the two of LLMProvider and one that is neither.  *)
(***************************************************************************)
\* part_004 376-378
modelNameFor(connection) ==
    IF connection.provider = "lmstudio" THEN SelectedModelName
    ELSE connection.openRouterModel

Connections ==
    { ConnectionSettings(provider, openRouterApiKey) :
        provider \in { "lmstudio", "openrouter", "gemini" },
        openRouterApiKey \in { "", "sk-or-v1-0123" } }

FetchOutcomes ==
    Outcomes \cup { HttpError("401", "Unauthorized"),
                    HttpError("500", "Internal Server Error"),
                    NotJson }
             \cup { FetchOk(Body(<< Choice(Msg("", << ToolCall("runN8NWorkflow", arguments) >>)) >>)) :
                      arguments \in { "{\"workflowName\":42}", "{\"workflowName\":\"\"}", "{}" } }

GenerateInit ==
    /\ impl = "P4"
    /\ VoiceIdle
    /\ ModelsInitial
    /\ isProcessing = TRUE
    /\ agentSettings \in [n8nToolCalling : BOOLEAN, liquidAudio : { TRUE }]
    /\ webhookStatus = "disconnected"
    /\ lastWebhookRequestRef = "null"
    /\ \E connection \in Connections, round \in { 1, 2 }, outcome \in FetchOutcomes :
          LET userMessage == Message("user", "run my backup workflow", NoCall, FALSE)
              currentMessages == Append(INITIAL_MESSAGES, userMessage)
              functionCall == FunctionCall("runN8NWorkflow", JObj(JStr("Nightly Backup")))
              finalMessages ==
                  IF round = 1 THEN currentMessages
                  ELSE currentMessages
                          \o << toolMessage(functionCall), toolExecutionMessage(functionCall) >>
              call ==
                  IF round = 1
                  THEN firstCall(currentMessages, agentSettings, modelNameFor(connection))
                  ELSE secondCall(finalMessages, agentSettings, modelNameFor(connection))
          IN  /\ messages = finalMessages
              /\ turn = [pc |-> "await",
                         currentMessages |-> currentMessages,
                         finalMessages |-> finalMessages,
                         settings |-> agentSettings,
                         modelName |-> modelNameFor(connection),
                         isFromVoice |-> FALSE,
                         call |-> call,
                         gateway |-> NotInvoked,
                         round |-> round,
                         threw |-> FALSE]
              /\ pure = [fn |-> "generateResponse", connection |-> connection,
                         call |-> call, round |-> round, outcome |-> outcome,
                         done |-> FALSE,
                         out |-> [request |-> NoRequest, result |-> Thrown, error |-> NoError]]

\* the call runs up to the point where its promise settles
ApplyGenerateResponse ==
    /\ pure.fn = "generateResponse" /\ ~pure.done
    /\ pure' = [pure EXCEPT !.done = TRUE,
                            !.out = generateResponse(pure.call, pure.connection,
                                                     ZeroClock(pure.call.history),
                                                     pure.outcome)]
    /\ PureUnchanged

\* the awaiting processResponse resumes with the settled promise: it sees a
\* rejection, whatever the Error, or the result
GenerateResponseSettles ==
    /\ pure.fn = "generateResponse" /\ pure.done
    /\ turn.round = pure.round
    /\ processResponse(IF pure.out.result.threw THEN FetchFailed ELSE pure.outcome)

GenerateSpec == GenerateInit /\ [][ApplyGenerateResponse \/ GenerateResponseSettles]_vars

(***************************************************************************)
(* Properties of generateResponse as a whole, checked under GenerateSpec   *)
(***************************************************************************)
Called == pure.fn = "generateResponse" /\ pure.done

\* C12 (stray function call on a no-tools request): whatever the provider
\* answers, a call with allowTools = false returns a result without
\* functionCall.
StrayCallIgnored ==
    (Called /\ ~pure.call.allowTools) => ~HasFunctionCallPart(pure.out.result)

\* C14 (unsupported provider): with a provider that is neither 'lmstudio'
\* nor 'openrouter' the call sends no request and raises the
\* unsupported-provider error, and once the handler has resumed the turn is
\* over, failed, with the failure entry last in the transcript and the busy
\* flag cleared.
UnsupportedProviderFails ==
    (Called /\ pure.connection.provider \notin { "lmstudio", "openrouter" }) =>
        /\ pure.out.request = NoRequest
        /\ pure.out.result.threw
        /\ pure.out.error = UnsupportedProviderError(pure.connection.provider)
        /\ turn.pc # "await" =>
              /\ turn.pc = "done" /\ turn.threw /\ turn.round = pure.round
              /\ ~isProcessing
              /\ messages[Len(messages)] = errorMessage
              /\ Len(messages) = 1 + (IF pure.round = 1 THEN 2 ELSE 4)

\* C14 witness: the turn of a call with provider 'gemini' has ended with the
\* failure entry
UnsupportedProviderWitness ==
    /\ Called
    /\ pure.connection.provider = "gemini"
    /\ pure.out.request = NoRequest
    /\ turn.pc = "done"
    /\ messages[Len(messages)] = errorMessage

\* C15 (HTTP error carries the status): when the endpoint answers with a
\* status that is not ok, the Error raised to the caller carries that status,
\* so it differs from the Error of a fetch that was rejected.
HttpErrorCarriesStatus ==
    (Called /\ pure.out.request # NoRequest /\ pure.outcome.k = "http") =>
        /\ pure.out.result.threw
        /\ pure.out.error.status = pure.outcome.status
        /\ pure.out.error
             # generateResponse(pure.call, pure.connection, ZeroClock(pure.call.history),
                                FetchFailed).error

\* C20 (credential scoping): a request carries an Authorization header
\* exactly when the provider is 'openrouter', and a request to the local
\* endpoint carries none, whatever key the settings hold.
CredentialScoping ==
    (Called /\ pure.out.request # NoRequest) =>
        /\ pure.out.request.headers.authorization # NoHeader
              <=> pure.connection.provider = "openrouter"
        /\ pure.out.request.url = LocalUrl =>
              pure.out.request.headers.authorization = NoHeader
        /\ pure.out.request.url = LocalUrl <=> pure.connection.provider = "lmstudio"

\* C20 witness: a request went to the local endpoint while the settings
\* held a cloud key
CredentialScopingWitness ==
    /\ Called
    /\ pure.connection.provider = "lmstudio"
    /\ pure.connection.openRouterApiKey # ""
    /\ pure.out.request # NoRequest
    /\ pure.out.request.url = LocalUrl
    /\ pure.out.request.headers.authorization = NoHeader

(***************************************************************************)
(* Further properties of mapMessagesToOpenAI, checked under MapSpec        *)
(***************************************************************************)
\* the assistant tool-call entries of a mapped list before position i
CallEntriesBefore(out, i) ==
    { j \in 1..(i - 1) : out[j].role = "assistant" /\ out[j].tool_calls # << >> }

\* C21 (nearest-prior correlation): every tool entry of the mapped list has
\* an assistant tool-call entry before it, and it carries the call id and
\* the function name of the nearest one, whatever lies between the two and
\* however many assistant function calls the history holds.
NearestPriorCorrelation ==
    Mapped =>
        \A i \in 1..Len(pure.out) :
            pure.out[i].role = "tool" =>
                LET calls == CallEntriesBefore(pure.out, i)
                IN  /\ calls # {}
                    /\ \A j \in calls :
                          (\A h \in calls : h <= j) =>
                              /\ pure.out[i].tool_call_id = pure.out[j].tool_calls[1].id
                              /\ pure.out[i].name = pure.out[j].tool_calls[1].function.name

\* C21 witness: two assistant function calls of different names, then a
\* user message, then a tool message that got the second call's name
NearestPriorWitness ==
    /\ Mapped
    /\ Len(pure.out) = 5
    /\ pure.out[2].tool_calls # << >>
    /\ pure.out[2].tool_calls[1].function.name = "runN8NWorkflow"
    /\ pure.out[3].tool_calls # << >>
    /\ pure.out[3].tool_calls[1].function.name = "sendEmail"
    /\ pure.out[4].role = "user"
    /\ pure.out[5].role = "tool"
    /\ pure.out[5].name = "sendEmail"
    /\ pure.out[5].tool_call_id = pure.out[3].tool_calls[1].id

\* The mapper the scan is compared with: it keeps the most recent open
\* tool-call (its id and function name), clears it once a tool message has
\* matched it, and drops a tool message when no call is open.
NoOpenCall == [k |-> "none"]
RECURSIVE pendingCallLoop(_, _, _, _, _, _)
pendingCallLoop(history, kept, clk, i, open, out) ==
    IF i > Len(kept)
    THEN out
    ELSE LET msg == history[kept[i]]
             now == clk[kept[i]]
         IN  CASE msg.role = "assistant" /\ msg.functionCall # NoCall ->
                     pendingCallLoop(history, kept, clk, i + 1,
                                     [k |-> "open",
                                      id |-> NewCallId(msg.functionCall.name, now),
                                      name |-> msg.functionCall.name],
                                     Append(out, assistantCallEntry(msg, now)))
               [] msg.role = "tool" ->
                     IF open = NoOpenCall
                     THEN pendingCallLoop(history, kept, clk, i + 1, open, out)
                     ELSE pendingCallLoop(history, kept, clk, i + 1, NoOpenCall,
                                          Append(out, OpenAIMessage("tool", msg.content, << >>,
                                                                    open.id, open.name)))
               [] OTHER ->
                     pendingCallLoop(history, kept, clk, i + 1, open,
                                     Append(out, OpenAIMessage(msg.role, msg.content, << >>,
                                                               NoId, "")))

pendingCallMapper(history, systemInstruction, clk) ==
    pendingCallLoop(history, filteredMessages(history), clk, 1, NoOpenCall,
                    << OpenAIMessage("system", systemInstruction, << >>, NoId, "") >>)

ToolEntries(out) == SelectSeq(out, LAMBDA m : m.role = "tool")

\* tool messages that follow an assistant function call which an earlier
\* tool message has already answered
RepeatedAnswers(history) ==
    { j \in 1..Len(history) :
        /\ history[j].role = "tool"
        /\ \E i \in 1..(j - 1) :
              /\ history[i].role = "tool"
              /\ \A h \in (i + 1)..(j - 1) : ~IsAssistantCall(history[h])
              /\ \E c \in 1..(i - 1) : IsAssistantCall(history[c]) }

\* C26 as stated (scan/stack equivalence): for every history the scan emits
\* the same tool entries, with the same correlation ids, as the mapper that
\* keeps and clears the most recent open call.
ScanStackEquivalence ==
    Mapped =>
        ToolEntries(pure.out)
            = ToolEntries(pendingCallMapper(pure.history, SystemInstruction, pure.clk))

\* C26 amended: the two mappers emit the same list exactly for the histories
\* in which no assistant function call is followed by a second tool message
\* before the next call; for every other history the scan emits an entry
\* for each such further tool message, with the id of the call already
\* answered, and the other mapper drops it.
ScanStackEquivalenceWhenAnsweredOnce ==
    Mapped =>
        LET stack == pendingCallMapper(pure.history, SystemInstruction, pure.clk)
            repeated == RepeatedAnswers(pure.history)
        IN  /\ (repeated = {}) <=> (pure.out = stack)
            /\ (repeated = {}) <=> (ToolEntries(pure.out) = ToolEntries(stack))
            /\ Len(ToolEntries(pure.out)) = Len(ToolEntries(stack)) + Cardinality(repeated)
            /\ stack = mapMessagesToOpenAI(DropAt(pure.history, repeated), SystemInstruction,
                                           DropAt(pure.clk, repeated))

\* C26 witness: two function calls, each answered by one tool message, were
\* mapped to two tool entries by both mappers
ScanStackWitness ==
    /\ Mapped
    /\ Len(pure.history) = 4
    /\ IsAssistantCall(pure.history[1]) /\ pure.history[2].role = "tool"
    /\ IsAssistantCall(pure.history[3]) /\ pure.history[4].role = "tool"
    /\ RepeatedAnswers(pure.history) = {}
    /\ Len(ToolEntries(pure.out)) = 2
    /\ pure.out = pendingCallMapper(pure.history, SystemInstruction, pure.clk)

(***************************************************************************)
(* Further properties of the response handling, under TransformSpec        *)
(***************************************************************************)
\* the message of the body's first choice, when the body has one
HasMessage(outcome) ==
    /\ outcome.k = "ok"
    /\ ~Degenerate(outcome.data)
    /\ outcome.data.choices.items[1] # NullChoice
FirstMessage(outcome) == outcome.data.choices.items[1].message

FunctionCallParts(result) ==
    { i \in 1..Len(result.parts) : result.parts[i].k = "functionCall" }

\* C22 (first tool call only): for a message with k >= 1 tool_calls entries
\* the result has at most one functionCall, that functionCall has the name
\* and the parsed arguments of entry 0, and the result is the one the same
\* message with entry 0 alone gives, also when entry 0 is malformed.
FirstToolCallOnly ==
    (Generated /\ HasMessage(pure.outcome)
              /\ Len(FirstMessage(pure.outcome).tool_calls) >= 1) =>
        LET message == FirstMessage(pure.outcome)
            first == message.tool_calls[1]
        IN  /\ ~pure.result.threw
            /\ Cardinality(FunctionCallParts(pure.result)) <= 1
            /\ \A i \in FunctionCallParts(pure.result) :
                  /\ first # NullToolCall /\ first.function # NoFunction
                  /\ pure.result.parts[i].functionCall.name = first.function.name
                  /\ pure.result.parts[i].functionCall.args
                        = JSONparse(first.function.arguments).value
            /\ pure.result
                  = generateResponseResult(
                        FetchOk(Body(<< Choice(Msg(message.content, << first >>)) >>)))

\* C22 witness: entry 0 is null and entry 1 is a valid call; the result has
\* the malformed-call text and no functionCall
FirstToolCallOnlyWitness ==
    /\ Generated
    /\ pure.outcome = FetchOk(Body(<< Choice(Msg("", << NullToolCall, ValidToolCall >>)) >>))
    /\ pure.result = Returned("", << TextPart(MalformedToolCallText) >>)

(***************************************************************************)
(* Further properties of generateResponse, checked under GenerateSpec      *)
(***************************************************************************)
\* C23 (tool attachment): the request body carries the single workflow tool
\* declaration and tool_choice 'auto' exactly when the call allows tools
\* and the agent settings enable tool calling; otherwise it has neither
\* field.
ToolAttachment ==
    (Called /\ pure.out.request # NoRequest) =>
        LET body == pure.out.request.body
        IN  IF pure.call.allowTools /\ pure.call.settings.n8nToolCalling
            THEN /\ body.tools = toolsOpenAI
                 /\ Len(body.tools) = 1
                 /\ body.tools[1].name = "runN8NWorkflow"
                 /\ body.tool_choice = "auto"
            ELSE /\ body.tools = NoTools
                 /\ body.tool_choice = NoToolChoice

\* C23 witness: a first-round request with tool calling enabled went out
\* with the declaration
ToolAttachmentWitness ==
    /\ Called
    /\ pure.out.request # NoRequest
    /\ pure.call.allowTools
    /\ pure.call.settings.n8nToolCalling
    /\ pure.out.request.body.tools = toolsOpenAI
    /\ pure.out.request.body.tool_choice = "auto"

(***************************************************************************)
(* Further properties of the orchestrators, checked under Spec             *)
(***************************************************************************)
\* the functionCall a result carries (the first functionCall part)
CarriedFunctionCall(result) ==
    LET i == CHOOSE i \in 1..Len(result.parts) :
                 /\ result.parts[i].k = "functionCall"
                 /\ \A h \in 1..(i - 1) : result.parts[h].k # "functionCall"
    IN  result.parts[i].functionCall

\* C24 (function-call detection): when the result of the first request
\* carries a functionCall, with or without text next to it, the step that
\* receives it appends the assistant-call and tool entries for that call and
\* suspends in the second request.
FunctionCallDetected ==
    [][\A outcome \in Outcomes :
          ( /\ AwaitingRound(1)
            /\ ResponseStep(outcome)
            /\ ~generateResponseResult(outcome).threw
            /\ HasFunctionCallPart(generateResponseResult(outcome)) ) =>
              LET functionCall == CarriedFunctionCall(generateResponseResult(outcome))
              IN  /\ messages' = turn.finalMessages
                                    \o << toolMessage(functionCall),
                                          toolExecutionMessage(functionCall) >>
                  /\ turn'.pc = "await"
                  /\ turn'.round = 2]_vars

\* the label of a function call: its workflowName argument when that is a
\* non-empty string
WorkflowLabel(functionCall) ==
    IF /\ functionCall.args.t = "obj"
       /\ functionCall.args.workflowName.t = "str"
       /\ functionCall.args.workflowName.v # ""
    THEN functionCall.args.workflowName.v
    ELSE "Unknown Workflow"

\* C25 (workflow label default): every assistant-call entry of the
\* transcript and the tool entry after it are written with the call's
\* workflowName argument when that is a non-empty string and with
\* "Unknown Workflow" otherwise.
WorkflowLabelDefault ==
    \A i \in 1..Len(messages) :
        IsAssistantCall(messages[i]) =>
            LET label == WorkflowLabel(messages[i].functionCall)
            IN  /\ label \in { "Nightly Backup", "Unknown Workflow" }
                /\ messages[i].content = ExecutingText(label)
                /\ i < Len(messages)
                /\ messages[i + 1].role = "tool"
                /\ messages[i + 1].content = SuccessText(label)

\* C27 (model identifier): every request of a turn, of the first and of the
\* second round, carries as its model field the active model name computed
\* when the turn started; with the provider 'lmstudio' of Spec that is the
\* name of the selected local model.
ModelIdentifier ==
    turn.pc = "await" =>
        LET body == requestBody(turn.call, ZeroClock(turn.call.history))
        IN  /\ turn.modelName = SelectedModelName
            /\ body.model = turn.modelName

\* the transcript was cleared while the running turn was suspended: the turn
\* appended its user message when it started, and only handleClearChat
\* takes the transcript back to the initial list
ClearedDuringTurn == Outstanding(turn) /\ messages = INITIAL_MESSAGES

\* C28 (clear is not undone): handleClearChat leaves the initial message
\* list, and when it ran while a turn was suspended in an await, no step
\* brings back a message appended before it: the next transcript holds no
\* user message (none can have been sent since) and does not start with the
\* list the turn had built.
ClearNotUndone ==
    [][/\ handleClearChat => messages' = INITIAL_MESSAGES
       /\ ClearedDuringTurn =>
             /\ \A i \in 1..Len(messages') : messages'[i].role # "user"
             /\ ~IsPrefix(turn.finalMessages, messages')]_vars

\* C29 (no lost webhook message): when the transcript holds a system
\* message that the poller appended after the running turn took its copy
\* of the transcript, a step in which an await of that turn returns, with a
\* result or with a failure, keeps it.
NoLostWebhookMessage ==
    [][\A outcome \in Outcomes :
          ( /\ Outstanding(turn)
            /\ CountRole(messages, "system") > CountRole(turn.finalMessages, "system")
            /\ ResponseStep(outcome) ) =>
              CountRole(messages', "system") >= CountRole(messages, "system")]_vars

(***************************************************************************)
(* Model selection (App.tsx 167-202, part_004 461-495), checked under      *)
(* ModelsSpec.  handleRefreshModels is asynchronous: after its fetch it    *)
(* reads the selectedModel of the render in which it was called.           *)
(***************************************************************************)
\* most models of a list LM Studio answers with
MaxFetched == 2

\* ids a click or LM Studio can name: two of INITIAL_MODELS, one that is not
ModelIds == { "llama3", "mistral", "qwen2" }

\* data.data.map(m => ({ id: m.id, name: m.id, ... }))
Fetched(ids) == [i \in 1..Len(ids) |-> Model(ids[i], ids[i])]

\* what the fetch of /models gives: "failed" for a rejected fetch, a status
\* that is not ok or a body without data array; or the listed ids
RefreshOutcomes ==
    { [k |-> "failed"] }
        \cup { [k |-> "ok", ids |-> ids] :
                 ids \in UNION { [1..n -> ModelIds] : n \in 0..MaxFetched } }

\* list.find(m => m.id === id): the index of the first match, 0 for undefined
findModel(list, id) ==
    LET hits == { i \in 1..Len(list) : list[i].id = id }
    IN  IF hits = {} THEN 0 ELSE CHOOSE i \in hits : \A h \in hits : i <= h

handleSelectModel(modelId) ==
    /\ LET i == findModel(models, modelId)
       IN  selectedModel' = IF i # 0 THEN models[i] ELSE selectedModel
    /\ UNCHANGED << impl, messages, isProcessing, agentSettings, webhookStatus,
                    lastWebhookRequestRef, turn, pure, voiceVars, models, refresh >>

\* handleRefreshModels up to its await; provider is connectionSettings.provider
handleRefreshModels(provider) ==
    /\ refresh.pc = "idle"
    /\ IF provider # "lmstudio"
       THEN UNCHANGED refresh
       ELSE refresh' = [pc |-> "await", selectedModel |-> selectedModel]
    /\ UNCHANGED << impl, messages, isProcessing, agentSettings, webhookStatus,
                    lastWebhookRequestRef, turn, pure, voiceVars, models, selectedModel >>

\* the rest of handleRefreshModels: the fetch has settled.  selectedModel.id
\* on the null of the closure throws after setModels, into the catch block
refreshModelsReturns(outcome) ==
    /\ refresh.pc = "await"
    /\ refresh' = NoRefresh
    /\ IF outcome.k = "failed"
       THEN UNCHANGED << models, selectedModel >>
       ELSE LET fetchedModels == Fetched(outcome.ids)
            IN  /\ models' = fetchedModels
                /\ selectedModel' =
                      IF refresh.selectedModel = NullModel
                      THEN selectedModel
                      ELSE IF findModel(fetchedModels, refresh.selectedModel.id) = 0
                           THEN IF Len(fetchedModels) > 0 THEN fetchedModels[1]
                                ELSE NullModel
                           ELSE selectedModel
    /\ UNCHANGED << impl, messages, isProcessing, agentSettings, webhookStatus,
                    lastWebhookRequestRef, turn, pure, voiceVars >>

ModelsNext ==
    \/ \E modelId \in ModelIds : handleSelectModel(modelId)
    \/ \E provider \in { "lmstudio", "openrouter" } : handleRefreshModels(provider)
    \/ \E outcome \in RefreshOutcomes : refreshModelsReturns(outcome)

ModelsSpec == Init /\ [][ModelsNext]_vars

\* C30 (selected model invariant): after every handleSelectModel and
\* handleRefreshModels, a failed refresh and one with an empty list
\* included, selectedModel is not null and its id is the id of a model of
\* the models list; selecting an id that no model has leaves the selection
\* as it is.
SelectedModelInvariant ==
    [][/\ selectedModel' # NullModel
       /\ findModel(models', selectedModel'.id) # 0
       /\ \A modelId \in ModelIds :
             (handleSelectModel(modelId) /\ findModel(models, modelId) = 0) =>
                 selectedModel' = selectedModel]_vars

=============================================================================
